---- MODULE Spec2Model ----
(***************************************************************************)
(* The tracking-and-speed pipeline of backend/speed.py (analyze_video):    *)
(* frame loop, nearest-neighbour association, speed estimation, status     *)
(* classification, overspeed notification and the final report (Spec);     *)
(* two such calls in flight and the annotated-video file they share        *)
(* (SpecStreams); the calibration store of backend/calibration.py          *)
(* (SpecCalibration).                                                      *)
(*                                                                         *)
(* Speeds are Python floats in the source; here they are exact             *)
(* non-negative rationals [n, d] in lowest terms, so that the arithmetic   *)
(* of estimate_speed_kmh and every comparison against the limits is exact. *)
(***************************************************************************)
EXTENDS Integers, Sequences, FiniteSets, TLC

\* ------------------------------------------------------------------ bounds
\* Longest video, in frames read by cap.read().
MaxFrames == 3
\* Most boxes the detector returns over one video.
MaxVideoBoxes == 3
\* Most boxes the detector returns on one frame.
MaxBoxes == 2
\* Largest pixel distance between two centres of the frame.
MaxDist == 112

\* ------------------------------------------------------- program constants
\* the vehicle set with the person class let in
VEHICLE_CLASS_IDS_AND_PERSON == {0, 2, 3, 5, 7}
VEHICLE_CLASS_IDS == {2, 3, 5, 7}
MIN_PIXELS_FOR_SPEED == 3
MAX_REASONABLE_SPEED == 180
\* the gate of the association, `best_dist < 100`
GATING_DISTANCE == 100
\* `fps = 30.0  # fallback if metadata missing`
FALLBACK_FPS == 30
max_preview_frames == 5
\* the track expiry window the specification names as an engine option;
\* analyze_video has no such option
max_age_frames == 1
\* a capacity for the sample history of a track, which the specification bounds
\* without naming a number and the Track dataclass does not bound: the largest
\* capacity a video of MaxFrames frames can still exceed
history_capacity == MaxFrames - 2

\* Python's Optional: None is Nothing, a present value v is Some(v).
Nothing == <<>>
Some(v) == <<v>>
Val(o) == o[1]

\* ---------------------------------------------------------------- rationals
RECURSIVE GCD(_, _)
GCD(a, b) == IF b = 0 THEN a ELSE GCD(b, a % b)

\* n >= 0, d > 0
Rat(n, d) == LET g == GCD(n, d) IN [n |-> n \div g, d |-> d \div g]
FromInt(i) == Rat(i, 1)
Zero == FromInt(0)
RatMul(a, b) == Rat(a.n * b.n, a.d * b.d)
RatDiv(a, b) == Rat(a.n * b.d, a.d * b.n)
RatAdd(a, b) == Rat(a.n * b.d + b.n * a.d, a.d * b.d)
RatLT(a, b) == a.n * b.d < b.n * a.d
RatLE(a, b) == a.n * b.d <= b.n * a.d
RatGT(a, b) == RatLT(b, a)
RatGE(a, b) == RatLE(b, a)
RatMin(a, b) == IF RatLE(a, b) THEN a ELSE b

\* -------------------------------------------------------------- the inputs
\* Centres of detected boxes: vehicles along one lane of the image.
LaneY == 40
\* Two positions 2 px apart, and one half-way to a position beyond the gate.
Xs == {0, 2, 56, 112}
Centers == {<<x, LaneY>> : x \in Xs}
\* Classes the detector reports: a person (0), a car (2), a motorcycle (3).
DetectorClasses == {0, 2, 3}
\* The caller's settings (frontend/app.py sidebar ranges).
SpeedLimits == {30, 60}
Graces == {5}
MetersPerPixel == {Rat(1, 100), Rat(1, 2)}
FrameStrides == {1, 2}
\* CAP_PROP_FPS as the container reports it; 0 when the metadata is missing.
ReportedFps == {0, 30}

\* What a failed cap.read() stands for; OpenCV reports both as ret = False.
ReadFailures == {"end_of_stream", "read_error"}

\* calibration.py: keys, reference points and values of the calls.
VideoIds == {"a", "b"}
RefPoints == {<<0, 0>>, <<100, 0>>, <<64, 48>>}
LaneWidths == {Rat(7, 2), FromInt(3)}
CalibFps == {25, 30}
NoCall == [call |-> "none"]

\* Two analyze_video calls running at once.
Runs == {1, 2}
\* Most frames one of them annotates.
MaxRunFrames == 2
NewRun == [pc |-> "start", writer |-> "none", written |-> 0,
           annotated_video_b64 |-> Nothing]

\* main.py: the requests handled, the uploads and their file names.
MaxRequests == 3
Videos == {"opens", "does_not_open"}
Filenames == {"clip.mp4", "clip.avi", "clip"}
\* the names speed.py defines at module level
SpeedModuleNames ==
    {"BASE_DIR", "MODEL_PATH", "VEHICLE_CLASS_IDS", "MIN_PIXELS_FOR_SPEED",
     "MAX_REASONABLE_SPEED", "Track", "load_vehicle_model", "estimate_speed_kmh",
     "analyze_video", "update_speed"}

\* risk.py: speeds in steps of half a km/h up to MaxHalfKmh / 2, and limits.
MaxHalfKmh == 140
RiskSpeeds == {Rat(n, 2) : n \in 0..MaxHalfKmh}
RiskLimits == {10, 30, 60}

\* ------------------------------------------------------------------- state
VARIABLES
    pc,               \* "open", "read", "boxes", "done", "raised"
    speed_limit_kmh, grace_kmh, meters_per_pixel, frame_stride,
    fps,              \* frames per second used for timing, 0 before the capture opens
    frame_idx,
    next_track_id,
    tracks,           \* the list of Track records, in creation order
    nboxes,           \* boxes of the current frame already iterated
    detections,       \* the frame's detections list (center, cls_id, tr, speed_now)
    loc,              \* locals of the last iteration of the box loop
    emails,           \* track ids send_violation_email was called with, in order
    writer,           \* "none", "open", "released"
    preview_frames,   \* len(preview_frames_b64)
    boxes_seen,       \* boxes the detector has returned so far, over all frames
    report,           \* Some(the summary analyze_video returns), Nothing before
    email_log,        \* how each send_violation_email call ended, in order
    ocr_calls,        \* track ids read_plate_text_from_crop was called for, in order
    ret_cause,        \* why cap.read() returned ret = False; "none" before it does
    cap_opened,       \* Some(cap.isOpened()), Nothing before the capture is made
    calib_store,      \* calibration.calib_store: video id -> Optional [mpp, fps]
    calib_out,        \* how the last call into calibration.py ended
    load_pending,     \* a load_calibration call between its two subscripts
    saves,            \* every (video_id, mpp, fps) save_calibration was called with
    runs,             \* two analyze_video calls in flight: their locals
    annotated_file,   \* the content of runs/last_annotated.mp4, Nothing if absent
    upload_dir,       \* names of the files in backend/uploads
    request,          \* locals of the POST /analyze_video being handled, or Nothing
    responses,        \* the responses returned so far, in order
    risk_call         \* the last call of risk.classify_speed: arguments and result

\* analyze_video and what it calls
pipeline == <<pc, speed_limit_kmh, grace_kmh, meters_per_pixel, frame_stride, fps,
              frame_idx, next_track_id, tracks, nboxes, detections, loc, emails,
              writer, preview_frames, boxes_seen, report, email_log, ocr_calls,
              ret_cause, cap_opened>>
\* calibration.py
calibration == <<calib_store, calib_out, load_pending, saves>>
\* two concurrent analyze_video calls and the file they both use
streams == <<runs, annotated_file>>

\* main.py: the POST /analyze_video handler
endpoint == <<upload_dir, request, responses>>

vars == <<pipeline, calibration, streams, endpoint, risk_call>>

config == <<speed_limit_kmh, grace_kmh, meters_per_pixel, frame_stride>>

NoStep == [kind |-> "none"]

\* ----------------------------------------------------------------- helpers
Sqrt(s) == CHOOSE r \in 0..MaxDist : r * r = s

\* math.dist(a, b)
Dist(a, b) ==
    Sqrt((a[1] - b[1]) * (a[1] - b[1]) + (a[2] - b[2]) * (a[2] - b[2]))

\* Track(track_id=..., cls_id=...) with the dataclass defaults
NewTrack(track_id, cls_id) ==
    [track_id |-> track_id, cls_id |-> cls_id,
     last_center |-> Nothing, last_frame_idx |-> Nothing,
     speeds_kmh |-> <<>>, max_speed_kmh |-> Zero, status |-> "unknown",
     plate_text |-> Nothing, owner_info |-> Nothing, overspeed_handled |-> FALSE]

\* estimate_speed_kmh with the time base multiplied instead of divided
estimate_speed_kmh_times_dt(pix_dist, dt, mpp) ==
    IF dt.n <= 0 THEN Zero
    ELSE RatMul(RatMul(RatMul(pix_dist, mpp), dt), Rat(18, 5))

\* a non-positive time base floored at one millisecond instead of rejected
estimate_speed_kmh_floor_dt(pix_dist, dt, mpp) ==
    LET meters == RatMul(pix_dist, mpp)
        mps == RatDiv(meters, IF dt.n <= 0 THEN Rat(1, 1000) ELSE dt)
    IN RatMul(mps, Rat(18, 5))

\* estimate_speed_kmh(pix_dist, dt, meters_per_pixel); dt = [n, d] seconds
estimate_speed_kmh(pix_dist, dt, mpp) ==
    IF dt.n <= 0 THEN Zero
    ELSE LET meters == RatMul(pix_dist, mpp)
             mps == RatDiv(meters, dt)
         IN RatMul(mps, Rat(18, 5))

\* the clamp left out
ClampSpeedMissing(speed_now) == speed_now

\* `if speed_now > MAX_REASONABLE_SPEED: speed_now = MAX_REASONABLE_SPEED`
ClampSpeed(speed_now) ==
    IF RatGT(speed_now, FromInt(MAX_REASONABLE_SPEED))
    THEN FromInt(MAX_REASONABLE_SPEED) ELSE speed_now

\* the frame delta left out of the guard
RecordsSpeedAnyTime(frame_delta, pix_dist) == pix_dist >= MIN_PIXELS_FOR_SPEED

\* the jitter threshold left out of the guard
RecordsSpeedAnyDistance(frame_delta, pix_dist) == frame_delta > 0

\* `if frame_delta > 0 and pix_dist >= MIN_PIXELS_FOR_SPEED`
RecordsSpeed(frame_delta, pix_dist) ==
    frame_delta > 0 /\ pix_dist >= MIN_PIXELS_FOR_SPEED

\* the maximum overwritten by every sample
FoldMaxOverwrite(max_speed_kmh, speed_now) == speed_now

\* `if speed_now > tr.max_speed_kmh: tr.max_speed_kmh = speed_now`
FoldMax(max_speed_kmh, speed_now) ==
    IF RatGT(speed_now, max_speed_kmh) THEN speed_now ELSE max_speed_kmh

\* the classification with the grace band forgotten
ClassifyNoGrace(max_speed_kmh, status, limit, grace_limit) ==
    IF RatGT(max_speed_kmh, limit) THEN "overspeed"
    ELSE IF RatGT(max_speed_kmh, Zero) THEN "within_limit"
    ELSE status

\* the classification of lines 187-193; the status is kept when no branch fires
Classify(max_speed_kmh, status, limit, grace_limit) ==
    IF RatGT(max_speed_kmh, grace_limit) THEN "overspeed"
    ELSE IF RatGT(max_speed_kmh, limit) THEN "grace"
    ELSE IF RatGT(max_speed_kmh, Zero) THEN "within_limit"
    ELSE status

\* read_plate_text_from_crop: the stub returns "" for every crop
read_plate_text_from_crop == ""

\* lookup_owner(plate_text): None for an empty plate
lookup_owner(plate_text) ==
    IF plate_text = "" THEN Nothing ELSE Some([plate |-> plate_text])

\* info.get("email") of `info = track.owner_info or {}`
OwnerEmail(owner_info) ==
    IF owner_info = Nothing THEN ""
    ELSE IF "email" \in DOMAIN Val(owner_info) THEN Val(owner_info).email ELSE ""

\* missing credentials raising instead of being skipped
send_violation_email_needs_credentials(tr, credentials, smtp_ok) ==
    IF ~credentials THEN "raised"
    ELSE IF OwnerEmail(tr.owner_info) = "" THEN "skipped"
    ELSE IF smtp_ok THEN "sent" ELSE "error_logged"

\* utils.send_violation_email: how the call ends. credentials: EMAIL_USER and
\* EMAIL_PASS are both set; smtp_ok: the SMTP session succeeds.
send_violation_email(tr, credentials, smtp_ok) ==
    IF ~credentials \/ OwnerEmail(tr.owner_info) = "" THEN "skipped"
    ELSE IF smtp_ok THEN "sent" ELSE "error_logged"

\* the one-shot flag not consulted
ShouldNotifyEveryTime(tr) == tr.status = "overspeed"

\* `if tr.status == "overspeed" and not tr.overspeed_handled`
ShouldNotify(tr) == tr.status = "overspeed" /\ ~tr.overspeed_handled

\* the counter not advanced
NextTrackIdStuck(id) == id

\* `next_track_id += 1`
NextTrackId(id) == id + 1

\* The scan of lines 147-157: index into trs of the nearest track of the class
\* (0 for none) and its distance; a later track wins only when strictly nearer.
RECURSIVE Nearest(_, _, _, _, _, _)
Nearest(trs, cls_id, center, i, best_track, best_dist) ==
    IF i > Len(trs) THEN [track |-> best_track, dist |-> best_dist]
    ELSE LET tr == trs[i] IN
         IF tr.cls_id # cls_id \/ tr.last_center = Nothing
         THEN Nearest(trs, cls_id, center, i + 1, best_track, best_dist)
         ELSE LET dist == Dist(center, Val(tr.last_center)) IN
              IF best_track = 0 \/ dist < best_dist
              THEN Nearest(trs, cls_id, center, i + 1, i, dist)
              ELSE Nearest(trs, cls_id, center, i + 1, best_track, best_dist)

\* the gate forgotten: the nearest track of the class always matches
MatchesAnyDistance(near) == near.track # 0

\* `best_track is not None and best_dist < 100`
Matches(near) == near.track # 0 /\ near.dist < GATING_DISTANCE

\* round(x, 2): to the nearest hundredth, halves to the even neighbour
Round2(x) ==
    LET s == x.n * 100
        q == s \div x.d
        r2 == 2 * (s % x.d)
        up == r2 > x.d \/ (r2 = x.d /\ q % 2 = 1)
    IN Rat(IF up THEN q + 1 ELSE q, 100)

track_to_dict(tr) ==
    [track_id |-> tr.track_id, class |-> tr.cls_id,
     max_speed_kmh |-> Round2(tr.max_speed_kmh), status |-> tr.status,
     plate_text |-> tr.plate_text, owner_info |-> tr.owner_info]

\* the tracks of a status with a positive maximum, in list order (lines 319-329)
RECURSIVE Events(_, _)
Events(trs, status) ==
    IF trs = <<>> THEN <<>>
    ELSE LET tr == Head(trs)
             rest == Events(Tail(trs), status)
         IN IF RatGT(tr.max_speed_kmh, Zero) /\ tr.status = status
            THEN <<track_to_dict(tr)>> \o rest ELSE rest

\* total_tracks counting every track, with or without a speed
SummaryCountsAll(trs) ==
    [total_tracks |-> Len(trs),
     overspeed_count |-> Len(Events(trs, "overspeed")),
     grace_count |-> Len(Events(trs, "grace")),
     within_limit_count |-> Len(Events(trs, "within_limit")),
     overspeed_vehicles |-> Events(trs, "overspeed"),
     grace_vehicles |-> Events(trs, "grace"),
     within_limit_vehicles |-> Events(trs, "within_limit")]

\* the summary dict of lines 346-362 (timing and media payloads left out)
Summary(trs) ==
    [total_tracks |->
        Cardinality({i \in 1..Len(trs) : RatGT(trs[i].max_speed_kmh, Zero)}),
     overspeed_count |-> Len(Events(trs, "overspeed")),
     grace_count |-> Len(Events(trs, "grace")),
     within_limit_count |-> Len(Events(trs, "within_limit")),
     overspeed_vehicles |-> Events(trs, "overspeed"),
     grace_vehicles |-> Events(trs, "grace"),
     within_limit_vehicles |-> Events(trs, "within_limit")]

\* -------------------------------------------------------------------- Init
Init ==
    /\ pc = "open"
    /\ speed_limit_kmh \in SpeedLimits
    /\ grace_kmh \in Graces
    /\ meters_per_pixel \in MetersPerPixel
    /\ frame_stride \in FrameStrides
    /\ fps = 0
    /\ frame_idx = 0
    /\ next_track_id = 1
    /\ tracks = <<>>
    /\ nboxes = 0
    /\ detections = <<>>
    /\ loc = NoStep
    /\ emails = <<>>
    /\ writer = "none"
    /\ preview_frames = 0
    /\ boxes_seen = 0
    /\ report = Nothing
    /\ email_log = <<>>
    /\ ocr_calls = <<>>
    /\ ret_cause = "none"
    /\ cap_opened = Nothing
    /\ calib_store = [video_id \in VideoIds |-> Nothing]
    /\ calib_out = NoCall
    /\ load_pending = Nothing
    /\ saves = {}
    /\ runs = [r \in Runs |-> NewRun]
    /\ annotated_file = Nothing
    /\ upload_dir = {}
    /\ request = Nothing
    /\ responses = <<>>
    /\ risk_call = NoCall

\* ----------------------------------------------------------------- actions
\* the capture used without looking at cap.isOpened()
OpenVideoUnchecked ==
    /\ pc = "open"
    /\ \E opened \in BOOLEAN, reported \in ReportedFps :
        /\ cap_opened' = Some(opened)
        /\ pc' = "read"
        /\ fps' = IF reported = 0 THEN FALLBACK_FPS ELSE reported
    /\ UNCHANGED <<config, frame_idx, next_track_id, tracks, nboxes, detections,
                   loc, emails, writer, preview_frames, boxes_seen, report,
                   email_log, ocr_calls, ret_cause, calibration, streams, endpoint, risk_call>>

\* lines 80-109: the model loads and the capture opens, or the call raises
\* RuntimeError("Could not open video").
OpenVideo ==
    /\ pc = "open"
    /\ \E opened \in BOOLEAN, reported \in ReportedFps :
        /\ cap_opened' = Some(opened)
        /\ IF opened
           THEN /\ pc' = "read"
                /\ fps' = IF reported = 0 THEN FALLBACK_FPS ELSE reported
           ELSE /\ pc' = "raised"
                /\ fps' = fps
    /\ UNCHANGED <<config, frame_idx, next_track_id, tracks, nboxes, detections,
                   loc, emails, writer, preview_frames, boxes_seen, report,
                   email_log, ocr_calls, ret_cause, calibration, streams, endpoint, risk_call>>

\* lines 116-118: a frame off the stride is skipped.
SkipFrame ==
    /\ pc = "read"
    /\ frame_idx < MaxFrames
    /\ (frame_idx + 1) % frame_stride # 0
    /\ frame_idx' = frame_idx + 1
    /\ UNCHANGED <<pc, config, fps, next_track_id, tracks, nboxes, detections,
                   loc, emails, writer, preview_frames, boxes_seen, report,
                   email_log, ocr_calls, ret_cause, cap_opened,
                   calibration, streams, endpoint, risk_call>>

\* lines 128-130: the detector returns no box.
EmptyFrame ==
    /\ pc = "read"
    /\ frame_idx < MaxFrames
    /\ (frame_idx + 1) % frame_stride = 0
    /\ frame_idx' = frame_idx + 1
    /\ UNCHANGED <<pc, config, fps, next_track_id, tracks, nboxes, detections,
                   loc, emails, writer, preview_frames, boxes_seen, report,
                   email_log, ocr_calls, ret_cause, cap_opened,
                   calibration, streams, endpoint, risk_call>>

\* lines 128-132: the detector returns boxes; the box loop starts.
DetectFrame ==
    /\ pc = "read"
    /\ frame_idx < MaxFrames
    /\ boxes_seen < MaxVideoBoxes
    /\ (frame_idx + 1) % frame_stride = 0
    /\ frame_idx' = frame_idx + 1
    /\ pc' = "boxes"
    /\ nboxes' = 0
    /\ detections' = <<>>
    /\ loc' = NoStep
    /\ UNCHANGED <<config, fps, next_track_id, tracks, emails, writer,
                   preview_frames, boxes_seen, report, email_log, ocr_calls,
                   ret_cause, cap_opened, calibration, streams, endpoint, risk_call>>

\* lines 135-139: a box of a class outside the vehicle set.
IgnoreBox(cls_id) ==
    /\ pc = "boxes"
    /\ nboxes < MaxBoxes
    /\ boxes_seen < MaxVideoBoxes
    /\ cls_id \notin VEHICLE_CLASS_IDS
    /\ nboxes' = nboxes + 1
    /\ boxes_seen' = boxes_seen + 1
    /\ loc' = [kind |-> "ignored", cls_id |-> cls_id]
    /\ UNCHANGED <<pc, config, fps, frame_idx, next_track_id, tracks,
                   detections, emails, writer, preview_frames, report,
                   email_log, ocr_calls, ret_cause, cap_opened,
                   calibration, streams, endpoint, risk_call>>

\* lines 166-182: the speed of this step for track tr0 and, when one is
\* recorded, the sample appended and folded into the maximum.
Measure(tr0, center, frame, fps_, mpp) ==
    LET has_prev == tr0.last_center # Nothing /\ tr0.last_frame_idx # Nothing
        pix_dist == IF has_prev THEN Dist(center, Val(tr0.last_center)) ELSE Nothing
        frame_delta == IF has_prev THEN frame - Val(tr0.last_frame_idx) ELSE Nothing
        records == has_prev /\ RecordsSpeed(frame_delta, pix_dist)
    IN [pix_dist |-> pix_dist, frame_delta |-> frame_delta, records |-> records,
        speed_now |->
            IF records
            THEN ClampSpeed(estimate_speed_kmh(FromInt(pix_dist),
                                               Rat(frame_delta, fps_), mpp))
            ELSE Zero]

\* the maximum tracking the latest sample instead of the largest
UpdateTrackLatest(tr0, m, center, frame) ==
    [tr0 EXCEPT
        !.speeds_kmh = IF m.records THEN Append(@, m.speed_now) ELSE @,
        !.max_speed_kmh = IF m.records THEN m.speed_now ELSE @,
        !.last_center = Some(center),
        !.last_frame_idx = Some(frame)]

\* lines 180-185: the sample is stored and the last position replaced.
UpdateTrack(tr0, m, center, frame) ==
    [tr0 EXCEPT
        !.speeds_kmh = IF m.records THEN Append(@, m.speed_now) ELSE @,
        !.max_speed_kmh = IF m.records THEN FoldMax(@, m.speed_now) ELSE @,
        !.last_center = Some(center),
        !.last_frame_idx = Some(frame)]

\* `if tr.plate_text is None and tr.status in {...}`: the OCR block runs.
\* A vehicle box is tall enough for its plate crop to be non-empty, so the
\* block calls read_plate_text_from_crop.
PlateWanted(tr) ==
    tr.plate_text = Nothing /\ tr.status \in {"within_limit", "grace", "overspeed"}

\* lines 195-214: the plate is read while the track has none and is classified.
ReadPlate(tr) ==
    IF PlateWanted(tr)
    THEN [tr EXCEPT
            !.plate_text = IF read_plate_text_from_crop # ""
                           THEN Some(read_plate_text_from_crop) ELSE Nothing,
            !.owner_info = IF read_plate_text_from_crop # ""
                           THEN lookup_owner(read_plate_text_from_crop)
                           ELSE Nothing]
    ELSE tr

\* lines 141-221: one vehicle box, from association to the notification.
ProcessBox(cls_id, center) ==
    /\ pc = "boxes"
    /\ nboxes < MaxBoxes
    /\ boxes_seen < MaxVideoBoxes
    /\ cls_id \in VEHICLE_CLASS_IDS
    /\ \E near \in {Nearest(tracks, cls_id, center, 1, 0, 0)} :
       \E matched \in {Matches(near)} :
       \E k \in {IF matched THEN near.track ELSE Len(tracks) + 1} :
       \E tr0 \in {IF matched THEN tracks[k] ELSE NewTrack(next_track_id, cls_id)} :
       \E m \in {Measure(tr0, center, frame_idx, fps, meters_per_pixel)} :
       \E tr2 \in {UpdateTrack(tr0, m, center, frame_idx)} :
       \E status \in {Classify(tr2.max_speed_kmh, tr2.status,
                               FromInt(speed_limit_kmh),
                               FromInt(speed_limit_kmh + grace_kmh))} :
       \E tr4 \in {ReadPlate([tr2 EXCEPT !.status = status])} :
       \E ocr \in {PlateWanted([tr2 EXCEPT !.status = status])} :
       \E notify \in {ShouldNotify(tr4)} :
       \E tr5 \in {[tr4 EXCEPT !.overspeed_handled = IF notify THEN TRUE ELSE @]} :
       \E sent \in IF notify
                   THEN {send_violation_email(tr5, credentials, smtp_ok) :
                            credentials \in BOOLEAN, smtp_ok \in BOOLEAN}
                   ELSE {"not_called"} :
          /\ tracks' = IF matched THEN [tracks EXCEPT ![k] = tr5]
                       ELSE Append(tracks, tr5)
          /\ next_track_id' = IF matched THEN next_track_id
                              ELSE NextTrackId(next_track_id)
          /\ emails' = IF notify THEN Append(emails, tr5.track_id) ELSE emails
          /\ email_log' = IF notify THEN Append(email_log, sent) ELSE email_log
          /\ ocr_calls' = IF ocr THEN Append(ocr_calls, tr5.track_id) ELSE ocr_calls
          /\ pc' = IF sent = "raised" THEN "raised" ELSE pc
          /\ detections' = IF sent = "raised" THEN detections
                 ELSE Append(detections,
                 [center |-> center, cls_id |-> cls_id, tr |-> tr5.track_id,
                  speed_now |-> m.speed_now])
          /\ loc' = [kind |-> IF matched THEN "matched" ELSE "created",
                     cls_id |-> cls_id, center |-> center, tr |-> tr5.track_id,
                     pix_dist |-> m.pix_dist, frame_delta |-> m.frame_delta,
                     speed_now |-> m.speed_now]
    /\ nboxes' = nboxes + 1
    /\ boxes_seen' = boxes_seen + 1
    /\ UNCHANGED <<config, fps, frame_idx, writer, preview_frames, report,
                   ret_cause, cap_opened, calibration, streams, endpoint, risk_call>>

\* lines 223-306: the frame is drawn, written and (for the first five) kept as
\* a preview. The frame's detections list and the loop's locals die here.
AnnotateFrame ==
    /\ pc = "boxes"
    /\ nboxes >= 1
    /\ writer' = "open"
    /\ preview_frames' = IF preview_frames < max_preview_frames
                         THEN preview_frames + 1 ELSE preview_frames
    /\ pc' = "read"
    /\ nboxes' = 0
    /\ detections' = <<>>
    /\ loc' = NoStep
    /\ UNCHANGED <<config, fps, frame_idx, next_track_id, tracks, emails,
                   boxes_seen, report, email_log, ocr_calls, ret_cause,
                   cap_opened, calibration, streams, endpoint, risk_call>>

\* lines 112-114 and 308-364: cap.read() returns ret = False, at the end of the
\* stream or on a frame that cannot be read; the loop ends, the report is built.
EndOfVideo ==
    /\ pc = "read"
    /\ pc' = "done"
    /\ ret_cause' \in ReadFailures
    /\ writer' = IF writer = "none" THEN "none" ELSE "released"
    /\ report' = Some(Summary(tracks))
    /\ UNCHANGED <<config, fps, frame_idx, next_track_id, tracks, nboxes,
                   detections, loc, emails, preview_frames, boxes_seen,
                   email_log, ocr_calls, cap_opened, calibration, streams, endpoint, risk_call>>

Next ==
    \/ OpenVideo
    \/ SkipFrame
    \/ EmptyFrame
    \/ DetectFrame
    \/ \E cls_id \in DetectorClasses : IgnoreBox(cls_id)
    \/ \E cls_id \in DetectorClasses, center \in Centers : ProcessBox(cls_id, center)
    \/ AnnotateFrame
    \/ EndOfVideo

Spec == Init /\ [][Next]_vars


\* ------------------------------------------------ two runs of analyze_video
\* Both runs use the one path runs/last_annotated.mp4 (line 104). The file is
\* the sequence of frames written to it, each tagged with the run that wrote it.

\* lines 103-109: the writer is unset and the runs directory exists.
RunStart(r) ==
    /\ runs[r].pc = "start"
    /\ runs' = [runs EXCEPT ![r].pc = "loop"]
    /\ UNCHANGED <<annotated_file, pipeline, calibration, endpoint, risk_call>>

\* lines 288-299: the first annotated frame creates the writer, which
\* truncates the file; every annotated frame is written to it.
RunAnnotate(r) ==
    /\ runs[r].pc = "loop"
    /\ runs[r].written < MaxRunFrames
    /\ annotated_file' =
          Some(Append(IF runs[r].writer = "none" THEN <<>> ELSE Val(annotated_file), r))
    /\ runs' = [runs EXCEPT ![r].writer = "open", ![r].written = @ + 1]
    /\ UNCHANGED <<pipeline, calibration, endpoint, risk_call>>

\* lines 308-310 and 341-344: the writer is released and the file at the path,
\* when there is one, is read back into the report.
RunFinish(r) ==
    /\ runs[r].pc = "loop"
    /\ runs' = [runs EXCEPT ![r].pc = "done",
                           ![r].writer = IF @ = "none" THEN "none" ELSE "released",
                           ![r].annotated_video_b64 = annotated_file]
    /\ UNCHANGED <<annotated_file, pipeline, calibration, endpoint, risk_call>>

NextStreams ==
    \/ \E r \in Runs : RunStart(r)
    \/ \E r \in Runs : RunAnnotate(r)
    \/ \E r \in Runs : RunFinish(r)

SpecStreams == Init /\ [][NextStreams]_vars

\* ------------------------------------------------------------ calibration.py
\* How a call ends: with an exception or with a value.
Raised(error) == [kind |-> "raised", error |-> error]
Returned(value) == [kind |-> "returned", value |-> value]

\* the quotient of IEEE arithmetic, infinite for a zero distance
compute_mpp_ieee(p1, p2, lane_width_m) ==
    IF Dist(p1, p2) = 0 THEN Returned([n |-> 1, d |-> 0])
    ELSE Returned(RatDiv(lane_width_m, FromInt(Dist(p1, p2))))

\* compute_mpp(p1, p2, lane_width_m): a Python float division, which raises
\* ZeroDivisionError for a zero divisor
compute_mpp(p1, p2, lane_width_m) ==
    IF Dist(p1, p2) = 0 THEN Raised("ZeroDivisionError")
    ELSE Returned(RatDiv(lane_width_m, FromInt(Dist(p1, p2))))

\* calib_store after save_calibration(video_id, mpp, fps)
save_calibration(store, video_id, mpp, fps_) ==
    [store EXCEPT ![video_id] = Some([mpp |-> mpp, fps |-> fps_])]

\* a default calibration returned for a key that is not in the store
load_calibration_default(store, video_id) ==
    IF store[video_id] = Nothing THEN Returned(<<Rat(1, 100), FALLBACK_FPS>>)
    ELSE Returned(<<Val(store[video_id]).mpp, Val(store[video_id]).fps>>)

\* load_calibration(video_id): the dict subscript raises KeyError for a key
\* that is not in calib_store
load_calibration(store, video_id) ==
    IF store[video_id] = Nothing THEN Raised("KeyError")
    ELSE Returned(<<Val(store[video_id]).mpp, Val(store[video_id]).fps>>)

ComputeMpp(p1, p2, lane_width_m) ==
    /\ calib_out' = [call |-> "compute_mpp", args |-> <<p1, p2, lane_width_m>>,
                     out |-> compute_mpp(p1, p2, lane_width_m)]
    /\ UNCHANGED <<calib_store, load_pending, saves, pipeline, streams, endpoint, risk_call>>

SaveCalibration(video_id, mpp, fps_) ==
    /\ calib_store' = save_calibration(calib_store, video_id, mpp, fps_)
    /\ calib_out' = [call |-> "save_calibration", args |-> <<video_id, mpp, fps_>>,
                     out |-> Returned(Nothing)]
    /\ saves' = saves \cup {<<video_id, mpp, fps_>>}
    /\ UNCHANGED <<load_pending, pipeline, streams, endpoint, risk_call>>

\* load_calibration run without another thread in between
LoadCalibration(video_id) ==
    /\ load_pending = Nothing
    /\ calib_out' = [call |-> "load_calibration", args |-> <<video_id>>,
                     out |-> load_calibration(calib_store, video_id)]
    /\ UNCHANGED <<calib_store, load_pending, saves, pipeline, streams, endpoint, risk_call>>

NextCalibration ==
    \/ \E p1 \in RefPoints, p2 \in RefPoints, lane_width_m \in LaneWidths :
          ComputeMpp(p1, p2, lane_width_m)
    \/ \E video_id \in VideoIds, mpp \in MetersPerPixel, fps_ \in CalibFps :
          SaveCalibration(video_id, mpp, fps_)
    \/ \E video_id \in VideoIds : LoadCalibration(video_id)

\* the module just imported; analyze_video is not running, under one setting
InitIdle ==
    /\ Init
    /\ speed_limit_kmh = 60
    /\ meters_per_pixel = Rat(1, 100)
    /\ frame_stride = 1

SpecCalibration == InitIdle /\ [][NextCalibration]_vars

\* ------------------------------------- calibration.py called by two threads
\* One thread saves, another loads. The return expression of line 13
\* subscripts calib_store twice, and the saving thread can run in between.

\* `calib_store[video_id]["mpp"]`, the first element of the returned tuple
LoadReadMpp(video_id) ==
    /\ load_pending = Nothing
    /\ IF calib_store[video_id] = Nothing
       THEN /\ calib_out' = [call |-> "load_calibration", args |-> <<video_id>>,
                             out |-> Raised("KeyError")]
            /\ load_pending' = load_pending
       ELSE /\ load_pending' = Some([video_id |-> video_id,
                                     mpp |-> Val(calib_store[video_id]).mpp])
            /\ calib_out' = calib_out
    /\ UNCHANGED <<calib_store, saves, pipeline, streams, endpoint, risk_call>>

\* `calib_store[video_id]["fps"]`, the second element; the call returns
LoadReadFps ==
    /\ load_pending # Nothing
    /\ calib_out' = [call |-> "load_calibration",
                     args |-> <<Val(load_pending).video_id>>,
                     out |-> Returned(<<Val(load_pending).mpp,
                                        Val(calib_store[Val(load_pending).video_id]).fps>>)]
    /\ load_pending' = Nothing
    /\ UNCHANGED <<calib_store, saves, pipeline, streams, endpoint, risk_call>>

NextCalibrationThreads ==
    \/ \E video_id \in VideoIds, mpp \in MetersPerPixel, fps_ \in CalibFps :
          SaveCalibration(video_id, mpp, fps_)
    \/ \E video_id \in VideoIds : LoadReadMpp(video_id)
    \/ LoadReadFps

SpecCalibrationThreads == InitIdle /\ [][NextCalibrationThreads]_vars

\* ------------------------------------------------- main.py: POST /analyze_video
\* `Path(file.filename).suffix or ".mp4"`
Suffix(filename) ==
    IF filename = "clip.avi" THEN ".avi" ELSE ".mp4"

\* what analyze_video does with the uploaded video: RuntimeError when the
\* capture does not open (lines 82-84), the report otherwise
PipelineOutcome(video) ==
    IF video = "opens" THEN Returned("report")
    ELSE Raised("Could not open video")

\* `speed.run_speed_estimation(str(tmp_path))`: the attribute is looked up in
\* the speed module first
CallPipeline(video) ==
    IF "run_speed_estimation" \in SpeedModuleNames THEN PipelineOutcome(video)
    ELSE Raised("module has no attribute 'run_speed_estimation'")

\* lines 52-58: the upload is copied to a file with a fresh name.
SaveUpload(video, filename) ==
    /\ request = Nothing
    /\ Len(responses) < MaxRequests
    /\ \E tmp_name \in {<<Len(responses) + 1, Suffix(filename)>>} :
          /\ upload_dir' = upload_dir \cup {tmp_name}
          /\ request' = Some([pc |-> "saved", video |-> video,
                              tmp_name |-> tmp_name])
    /\ UNCHANGED <<responses, pipeline, calibration, streams, risk_call>>

\* lines 64-65 and 72: the pipeline call returns or raises.
RunPipeline ==
    /\ request # Nothing
    /\ Val(request).pc = "saved"
    /\ request' = Some([pc |-> "ran", video |-> Val(request).video,
                        tmp_name |-> Val(request).tmp_name,
                        result |-> CallPipeline(Val(request).video)])
    /\ UNCHANGED <<upload_dir, responses, pipeline, calibration, streams, risk_call>>

\* lines 73-86: the temporary file is unlinked and the response returned.
Respond ==
    /\ request # Nothing
    /\ Val(request).pc = "ran"
    /\ upload_dir' = upload_dir \ {Val(request).tmp_name}
    /\ responses' = Append(responses,
          [video |-> Val(request).video,
           tmp_name |-> Val(request).tmp_name,
           body |-> IF Val(request).result.kind = "raised"
                    THEN [status |-> "error", detail |-> Val(request).result.error]
                    ELSE [status |-> "ok", data |-> Val(request).result.value]])
    /\ request' = Nothing
    /\ UNCHANGED <<pipeline, calibration, streams, risk_call>>

NextEndpoint ==
    \/ \E video \in Videos, filename \in Filenames : SaveUpload(video, filename)
    \/ RunPipeline
    \/ Respond

SpecEndpoint == InitIdle /\ [][NextEndpoint]_vars

\* ------------------------------------------------------------------ risk.py
\* the limit itself already outside the limit
classify_speed_strict(kmh, limit) ==
    IF RatLT(kmh, limit) THEN "within_limit"
    ELSE IF RatLT(kmh, RatAdd(limit, FromInt(5))) THEN "grace"
    ELSE "overspeed"

\* risk.classify_speed(kmh, limit)
classify_speed(kmh, limit) ==
    IF RatLE(kmh, limit) THEN "within_limit"
    ELSE IF RatLE(kmh, RatAdd(limit, FromInt(5))) THEN "grace"
    ELSE "overspeed"

ClassifySpeed(kmh, limit) ==
    /\ risk_call' = [call |-> "classify_speed", kmh |-> kmh, limit |-> limit,
                     out |-> classify_speed(kmh, FromInt(limit))]
    /\ UNCHANGED <<pipeline, calibration, streams, endpoint>>

NextRisk == \E kmh \in RiskSpeeds, limit \in RiskLimits : ClassifySpeed(kmh, limit)

SpecRisk == InitIdle /\ [][NextRisk]_vars

\* ================================================================== claims
Count(seq, x) == Cardinality({j \in 1..Len(seq) : seq[j] = x})
TrackIdx == 1..Len(tracks)
Limit == FromInt(speed_limit_kmh)
GraceLimit == FromInt(speed_limit_kmh + grace_kmh)
Severity(status) ==
    CASE status = "unknown" -> 0
      [] status = "within_limit" -> 1
      [] status = "grace" -> 2
      [] status = "overspeed" -> 3
\* a step of the box loop that handled a vehicle box
VehicleStep == boxes_seen' = boxes_seen + 1 /\ loc'.kind \in {"matched", "created"}

\* ---- C1
C1_StateOK ==
    /\ \A i \in TrackIdx :
          /\ Count(emails, tracks[i].track_id)
                = (IF tracks[i].status = "overspeed" THEN 1 ELSE 0)
          /\ tracks[i].overspeed_handled = (tracks[i].status = "overspeed")
    /\ \A j \in 1..Len(emails) : \E i \in TrackIdx : tracks[i].track_id = emails[j]
C1_StepOK ==
    \A i \in TrackIdx :
        /\ tracks[i].overspeed_handled
              => /\ tracks'[i].overspeed_handled
                 /\ Count(emails', tracks[i].track_id) = 1
        /\ (~tracks[i].overspeed_handled /\ tracks'[i].status = "overspeed")
              => /\ tracks'[i].overspeed_handled
                 /\ Count(emails', tracks[i].track_id) = 1
\* C1: send_violation_email has been called exactly once for every track whose
\* status is overspeed and never for any other track; overspeed_handled is set
\* in the step that makes the track overspeed and no later step clears it or
\* sends again.
C1_SingleNotification == [](C1_StateOK) /\ [][C1_StepOK]_vars
\* an overspeed track, already notified, is matched again by a later detection
C1_Witness ==
    /\ loc.kind = "matched"
    /\ loc.speed_now = Zero
    /\ \E i \in TrackIdx :
          /\ tracks[i].track_id = loc.tr
          /\ tracks[i].status = "overspeed"
          /\ tracks[i].overspeed_handled
          /\ Len(tracks[i].speeds_kmh) >= 1
          /\ Count(emails, loc.tr) = 1

\* ---- C2
\* C2: within one frame no two detections are associated with the same track.
C2_AssociationExclusive ==
    \A a, b \in 1..Len(detections) :
        a # b => detections[a].tr # detections[b].tr

\* ---- C3
\* C3: for every track, status is overspeed iff max_speed_kmh > limit + grace,
\* grace iff limit < max_speed_kmh <= limit + grace, within_limit iff
\* 0 < max_speed_kmh <= limit, and unknown iff max_speed_kmh = 0.
C3_ClassificationConsistent ==
    \A i \in TrackIdx :
        LET mx == tracks[i].max_speed_kmh
            st == tracks[i].status
        IN /\ (st = "overspeed") <=> RatGT(mx, GraceLimit)
           /\ (st = "grace") <=> (RatGT(mx, Limit) /\ RatLE(mx, GraceLimit))
           /\ (st = "within_limit") <=> (RatGT(mx, Zero) /\ RatLE(mx, Limit))
           /\ (st = "unknown") <=> (mx = Zero)
\* a track first classified within_limit and moved to grace by a later sample
C3_Witness ==
    \E i \in TrackIdx :
        /\ tracks[i].status = "grace"
        /\ Len(tracks[i].speeds_kmh) >= 2
        /\ RatGT(tracks[i].speeds_kmh[1], Zero)
        /\ RatLE(tracks[i].speeds_kmh[1], Limit)

\* ---- C4
\* C4: no step lowers the max_speed_kmh of any track, whether or not the step
\* records a speed.
C4_MaxSpeedMonotonic ==
    [][\A i \in TrackIdx :
          /\ i <= Len(tracks')
          /\ RatGE(tracks'[i].max_speed_kmh, tracks[i].max_speed_kmh)]_vars
\* a track whose latest sample is below its maximum
C4_Witness ==
    \E i \in TrackIdx :
        LET sp == tracks[i].speeds_kmh
        IN /\ Len(sp) >= 2
           /\ RatLT(sp[Len(sp)], tracks[i].max_speed_kmh)

\* ---- C5
\* C5: with unknown < within_limit < grace < overspeed, no step lowers the
\* status of any track.
C5_SeverityMonotonic ==
    [][\A i \in TrackIdx :
          /\ i <= Len(tracks')
          /\ Severity(tracks'[i].status) >= Severity(tracks[i].status)]_vars
\* a grace or overspeed track whose latest sample alone would classify lower
C5_Witness ==
    \E i \in TrackIdx :
        LET sp == tracks[i].speeds_kmh
        IN /\ Len(sp) >= 2
           /\ tracks[i].status \in {"grace", "overspeed"}
           /\ Severity(Classify(sp[Len(sp)], "unknown", Limit, GraceLimit))
                 < Severity(tracks[i].status)

\* ---- C6
\* C6: between frames, no track of the store has gone unmatched for more than
\* max_age_frames frames, and the final report lists no such track.
C6_StaleTracksRemoved ==
    pc \in {"read", "done"} =>
        \A i \in TrackIdx :
            frame_idx - Val(tracks[i].last_frame_idx) <= max_age_frames

\* ---- C7
\* C7: track ids are 1, 2, 3, ... in creation order: pairwise distinct,
\* increasing along the list, all below the counter, which is the next unused id.
C7_TrackIdsUnique ==
    /\ \A i, j \in TrackIdx :
          i < j => tracks[i].track_id < tracks[j].track_id
    /\ \A i \in TrackIdx :
          /\ tracks[i].track_id >= 1
          /\ tracks[i].track_id < next_track_id
    /\ (tracks # <<>>) => tracks[1].track_id = 1
    /\ next_track_id = Len(tracks) + 1
C7_Witness == Len(tracks) >= 3

\* ---- C8
\* C8: every recorded speed sample, every per-detection speed and every
\* track's max_speed_kmh is at most MAX_REASONABLE_SPEED.
C8_SpeedsClamped ==
    /\ \A i \in TrackIdx :
          /\ RatLE(tracks[i].max_speed_kmh, FromInt(MAX_REASONABLE_SPEED))
          /\ \A j \in 1..Len(tracks[i].speeds_kmh) :
                RatLE(tracks[i].speeds_kmh[j], FromInt(MAX_REASONABLE_SPEED))
    /\ \A a \in 1..Len(detections) :
          RatLE(detections[a].speed_now, FromInt(MAX_REASONABLE_SPEED))
\* a step whose raw estimate was above the cap
C8_Witness ==
    /\ loc.kind = "matched"
    /\ loc.frame_delta > 0
    /\ loc.pix_dist >= MIN_PIXELS_FOR_SPEED
    /\ RatGT(estimate_speed_kmh(FromInt(loc.pix_dist), Rat(loc.frame_delta, fps),
                                meters_per_pixel),
             FromInt(MAX_REASONABLE_SPEED))
    /\ loc.speed_now = FromInt(MAX_REASONABLE_SPEED)

\* ---- C9
\* C9: a step that matches a detection to a track whose previous centre is less
\* than MIN_PIXELS_FOR_SPEED away records no sample (speed 0 for the step) and
\* leaves the track's max_speed_kmh, status and overspeed_handled as they were.
C9_JitterRecordsNothing ==
    [][(VehicleStep /\ loc'.kind = "matched") =>
          \A i \in TrackIdx :
              (tracks[i].track_id = loc'.tr
               /\ Dist(loc'.center, Val(tracks[i].last_center))
                     < MIN_PIXELS_FOR_SPEED)
              => /\ loc'.speed_now = Zero
                 /\ tracks'[i].speeds_kmh = tracks[i].speeds_kmh
                 /\ tracks'[i].max_speed_kmh = tracks[i].max_speed_kmh
                 /\ tracks'[i].status = tracks[i].status
                 /\ tracks'[i].overspeed_handled = tracks[i].overspeed_handled]_vars
\* a classified track matched a later frame by a detection 1 or 2 px away
C9_Witness ==
    /\ loc.kind = "matched"
    /\ loc.frame_delta > 0
    /\ loc.pix_dist > 0
    /\ loc.pix_dist < MIN_PIXELS_FOR_SPEED
    /\ \E i \in TrackIdx :
          /\ tracks[i].track_id = loc.tr
          /\ tracks[i].status # "unknown"

\* ---- C10
\* min((d * mpp) / (dt_frames / fps) * 3.6, max_reasonable_speed), in one fraction
SpeedFormula(d, dt_frames, fps_, mpp) ==
    RatMin(Rat(d * mpp.n * fps_ * 18, mpp.d * dt_frames * 5),
           FromInt(MAX_REASONABLE_SPEED))
\* the estimate followed by the clamp, as lines 173-178 compute it
ClampedEstimate(d, dt_frames, fps_, mpp) ==
    ClampSpeed(estimate_speed_kmh(FromInt(d), Rat(dt_frames, fps_), mpp))
\* C10 as stated: whenever a matched detection has a positive frame delta, the
\* speed of the step is min((d * mpp) / (dt_frames / fps) * 3.6, 180), for
\* every displacement d >= 0.
C10_FormulaForAllDistances ==
    (loc.kind = "matched" /\ loc.frame_delta > 0) =>
        loc.speed_now
            = SpeedFormula(loc.pix_dist, loc.frame_delta, fps, meters_per_pixel)
\* C10 amended: the speed of the step is that formula when d is at least
\* MIN_PIXELS_FOR_SPEED and 0 below it; the clamped estimate does not decrease
\* with d or mpp and does not increase with dt_frames; d = 50 over one frame
\* at 30 fps and 0.035 m/px is 189 km/h raw and 180 km/h clamped.
C10_FormulaFromThreshold ==
    (loc.kind = "matched" /\ loc.frame_delta > 0) =>
        LET d == loc.pix_dist
            dt_frames == loc.frame_delta
            mpp == meters_per_pixel
            here == ClampedEstimate(d, dt_frames, fps, mpp)
        IN /\ d >= MIN_PIXELS_FOR_SPEED => loc.speed_now = here
           /\ d < MIN_PIXELS_FOR_SPEED => loc.speed_now = Zero
           /\ here = SpeedFormula(d, dt_frames, fps, mpp)
           /\ RatGE(ClampedEstimate(d + 1, dt_frames, fps, mpp), here)
           /\ RatLE(ClampedEstimate(d, dt_frames + 1, fps, mpp), here)
           /\ \A mpp2 \in MetersPerPixel :
                 RatGE(mpp2, mpp)
                 => RatGE(ClampedEstimate(d, dt_frames, fps, mpp2), here)
           /\ estimate_speed_kmh(FromInt(50), Rat(1, 30), Rat(7, 200))
                 = FromInt(189)
           /\ ClampedEstimate(50, 1, 30, Rat(7, 200))
                 = FromInt(MAX_REASONABLE_SPEED)
\* a recorded, unclamped speed over more than one frame
C10_Witness ==
    /\ loc.kind = "matched"
    /\ loc.frame_delta > 1
    /\ loc.pix_dist >= MIN_PIXELS_FOR_SPEED
    /\ RatGT(loc.speed_now, Zero)
    /\ RatLT(loc.speed_now, FromInt(MAX_REASONABLE_SPEED))

\* ---- C11
\* C11: a step that matches a detection to a track whose last frame index is
\* not older than the current frame (time base zero or negative) has speed 0,
\* does not raise, and leaves the track's max_speed_kmh and status as they
\* were; estimate_speed_kmh itself returns 0 for a zero and for a negative
\* time base.
C11_ZeroTimeBase ==
    [][(VehicleStep /\ loc'.kind = "matched" /\ loc'.frame_delta <= 0) =>
          /\ loc'.speed_now = Zero
          /\ pc' # "raised"
          /\ estimate_speed_kmh(FromInt(loc'.pix_dist), Rat(0, fps),
                                meters_per_pixel) = Zero
          /\ estimate_speed_kmh(FromInt(loc'.pix_dist), [n |-> -1, d |-> fps],
                                meters_per_pixel) = Zero
          /\ \A i \in TrackIdx :
                tracks[i].track_id = loc'.tr
                => /\ tracks'[i].max_speed_kmh = tracks[i].max_speed_kmh
                   /\ tracks'[i].status = tracks[i].status]_vars
\* a classified track is matched a second time within one frame, by a
\* detection far enough away for the distance threshold not to apply
C11_Witness ==
    /\ loc.kind = "matched"
    /\ loc.frame_delta = 0
    /\ loc.pix_dist >= MIN_PIXELS_FOR_SPEED
    /\ \E i \in TrackIdx :
          /\ tracks[i].track_id = loc.tr
          /\ tracks[i].status # "unknown"
          /\ RatGT(tracks[i].max_speed_kmh, Zero)

\* ---- C12
\* C12: no track ever stores more than history_capacity samples.
C12_HistoryBounded ==
    \A i \in TrackIdx : Len(tracks[i].speeds_kmh) <= history_capacity

\* ---- C13
\* the annotated video a run returns when no other run is in flight
OwnVideo(r) ==
    IF runs[r].written = 0 THEN Nothing
    ELSE Some([j \in 1..runs[r].written |-> r])
\* C13: under every interleaving of the two runs, the annotated video a
\* finished run returns is the one made of its own frames.
C13_RunsIndependent ==
    \A r \in Runs :
        runs[r].pc = "done" => runs[r].annotated_video_b64 = OwnVideo(r)

\* ---- C14
\* owner records a track may carry when it is notified
OwnerInfos ==
    {Nothing, Some([plate |-> "ABC123", owner |-> "John Doe", email |-> ""]),
     Some([plate |-> "ABC123", owner |-> "John Doe", email |-> "john@example.com"])}
\* send_violation_email returns normally whatever the credentials, the owner
\* record and the SMTP session are
SendNeverRaises ==
    \A owner_info \in OwnerInfos, credentials \in BOOLEAN, smtp_ok \in BOOLEAN :
        LET sent == send_violation_email([owner_info |-> owner_info],
                                         credentials, smtp_ok)
        IN /\ sent \in {"skipped", "sent", "error_logged"}
           /\ ~credentials => sent = "skipped"
           /\ (credentials /\ OwnerEmail(owner_info) # "" /\ ~smtp_ok)
                 => sent = "error_logged"
C14_StepOK ==
    Len(emails') = Len(emails) + 1 =>
        /\ SendNeverRaises
        /\ Len(email_log') = Len(email_log) + 1
        /\ email_log'[Len(email_log')] # "raised"
        /\ pc' = "boxes"
        /\ Len(detections') = Len(detections) + 1
        /\ \A i \in TrackIdx :
              tracks[i].track_id = loc'.tr
              => /\ tracks'[i].status = "overspeed"
                 /\ tracks'[i].plate_text = Nothing
                 /\ tracks'[i].max_speed_kmh
                       = FoldMax(tracks[i].max_speed_kmh, loc'.speed_now)
\* C14: the step that notifies does not raise, whatever the credentials and
\* the transport do and although the OCR returns no plate: the frame loop goes
\* on, the detection is kept, and the track is overspeed with its maximum; the
\* only abort of a run is the failure to open the video.
C14_SideEffectFailuresContained ==
    /\ [](pc = "raised" => (frame_idx = 0 /\ tracks = <<>>))
    /\ [][C14_StepOK]_vars
\* an undelivered notification, and a detection of a later frame processed
\* after it
C14_Witness ==
    /\ loc.kind \in {"matched", "created"}
    /\ Len(email_log) = 1
    /\ email_log[1] = "skipped"
    /\ \E i \in TrackIdx :
          /\ tracks[i].track_id = emails[1]
          /\ tracks[i].track_id # loc.tr
          /\ tracks[i].status = "overspeed"
          /\ tracks[i].plate_text = Nothing
          /\ frame_idx > Val(tracks[i].last_frame_idx)

\* ---- C15
\* C15: the step of the frame loop that issues a notification hands it over
\* and ends with the delivery still pending, so that the next detection can be
\* processed before the delivery has completed.
C15_DeliveryNotAwaited ==
    [][Len(emails') = Len(emails) + 1
          => Len(email_log') = Len(email_log)]_vars

\* ---- C16
\* C16: read_plate_text_from_crop is called at most once for every track.
C16_PlateReadOnce ==
    \A i \in TrackIdx : Count(ocr_calls, tracks[i].track_id) <= 1

\* ---- C17
\* the last call was compute_mpp with p1 == p2
DegenerateCall ==
    calib_out.call = "compute_mpp" /\ calib_out.args[1] = calib_out.args[2]
\* C17 as stated: compute_mpp with p1 == p2 fails with DegenerateReferenceError.
C17_DegenerateReferenceError ==
    DegenerateCall => calib_out.out = Raised("DegenerateReferenceError")
\* C17 amended: compute_mpp with p1 == p2 fails with ZeroDivisionError; when
\* it returns, the value is lane_width_m over a positive distance, a finite
\* number; no call of compute_mpp changes calib_store.
C17_ZeroDivisionError ==
    /\ [](calib_out.call = "compute_mpp" =>
            /\ DegenerateCall => calib_out.out = Raised("ZeroDivisionError")
            /\ calib_out.out.kind = "returned"
                  => /\ calib_out.args[1] # calib_out.args[2]
                     /\ calib_out.out.value.d > 0)
    /\ [][calib_out'.call = "compute_mpp" => calib_store' = calib_store]_vars
\* compute_mpp is called with p1 == p2 while a calibration is stored
C17_Witness ==
    /\ DegenerateCall
    /\ \E video_id \in VideoIds : calib_store[video_id] # Nothing

\* ---- C18
\* the last call was load_calibration, for a key that is (not) in the store
LoadOfUnsaved ==
    calib_out.call = "load_calibration" /\ calib_store[calib_out.args[1]] = Nothing
LoadOfSaved ==
    calib_out.call = "load_calibration" /\ calib_store[calib_out.args[1]] # Nothing
\* C18 as stated: load_calibration of a key never saved fails with NotFoundError.
C18_NotFoundError ==
    LoadOfUnsaved => calib_out.out = Raised("NotFoundError")
\* C18 amended: load_calibration of a key never saved fails with KeyError; of
\* a saved key it returns the stored (mpp, fps); it never changes calib_store.
C18_KeyError ==
    /\ [](/\ LoadOfUnsaved => calib_out.out = Raised("KeyError")
          /\ LoadOfSaved =>
                calib_out.out
                   = Returned(<<Val(calib_store[calib_out.args[1]]).mpp,
                                Val(calib_store[calib_out.args[1]]).fps>>))
    /\ [][calib_out'.call = "load_calibration" => calib_store' = calib_store]_vars
\* a key never saved is loaded while the other key is stored
C18_Witness ==
    /\ LoadOfUnsaved
    /\ \E video_id \in VideoIds : calib_store[video_id] # Nothing

\* ---- C19
\* C19: once a key is stored, no later call changes what is stored under it
\* (what load_calibration returns for it).
C19_CalibrationImmutable ==
    [][\A video_id \in VideoIds :
          calib_store[video_id] # Nothing
          => load_calibration(calib_store', video_id)
                = load_calibration(calib_store, video_id)]_vars

\* ---- C20
\* C20 as stated: when the video cannot be opened and when reading a frame
\* fails, the call raises and no report is produced.
C20_OpenOrReadFatal ==
    /\ cap_opened = Some(FALSE) => (pc = "raised" /\ report = Nothing)
    /\ ret_cause = "read_error" => (pc = "raised" /\ report = Nothing)
\* C20 amended: when the video cannot be opened the call raises before any
\* frame is read and no report is produced; a frame that cannot be read ends
\* the loop as the end of the stream does, and the report of the tracks built
\* so far is returned.
C20_OpenFatalReadEndsLoop ==
    /\ cap_opened = Some(FALSE) =>
          (pc = "raised" /\ report = Nothing /\ frame_idx = 0 /\ tracks = <<>>)
    /\ pc = "raised" => report = Nothing
    /\ ret_cause # "none" => (pc = "done" /\ report = Some(Summary(tracks)))
\* the capture did not open and the call has raised
C20_Witness ==
    /\ cap_opened = Some(FALSE)
    /\ pc = "raised"

\* ---- C21
\* C21: a detection of a class outside {2, 3, 5, 7} creates no track and
\* changes none; a detection that is associated has a class of that set;
\* every track's class is in the set and is never changed by a step.
C21_StepOK ==
    /\ (boxes_seen' = boxes_seen + 1 /\ loc'.kind = "ignored")
          => /\ loc'.cls_id \notin {2, 3, 5, 7}
             /\ tracks' = tracks
             /\ next_track_id' = next_track_id
    /\ VehicleStep => loc'.cls_id \in {2, 3, 5, 7}
    /\ \A i \in TrackIdx :
          /\ i <= Len(tracks')
          /\ tracks'[i].cls_id = tracks[i].cls_id
          /\ tracks'[i].track_id = tracks[i].track_id
C21_NonVehiclesIgnored ==
    /\ [](\A i \in TrackIdx : tracks[i].cls_id \in {2, 3, 5, 7})
    /\ [][C21_StepOK]_vars
\* a person is detected, and ignored, while a track exists
C21_Witness ==
    /\ loc.kind = "ignored"
    /\ loc.cls_id = 0
    /\ Len(tracks) >= 1

\* ---- C22
\* tracks of class cls_id whose last centre is strictly less than the gating
\* distance from center
InGate(cls_id, center) ==
    {i \in TrackIdx :
        /\ tracks[i].cls_id = cls_id
        /\ Dist(center, Val(tracks[i].last_center)) < 100}
C22_StepOK ==
    VehicleStep =>
        LET cands == InGate(loc'.cls_id, loc'.center)
            d(i) == Dist(loc'.center, Val(tracks[i].last_center))
        IN /\ (loc'.kind = "created") = (cands = {})
           /\ loc'.kind = "created"
                 => /\ Len(tracks') = Len(tracks) + 1
                    /\ tracks'[Len(tracks')].track_id = loc'.tr
                    /\ tracks'[Len(tracks')].cls_id = loc'.cls_id
                    /\ \A i \in TrackIdx : tracks[i].track_id # loc'.tr
           /\ loc'.kind = "matched"
                 => /\ Len(tracks') = Len(tracks)
                    /\ \E i \in cands :
                          /\ tracks[i].track_id = loc'.tr
                          /\ \A j \in cands :
                                \/ d(i) < d(j)
                                \/ /\ d(i) = d(j)
                                   /\ tracks[i].track_id <= tracks[j].track_id
           /\ Len(detections') = Len(detections) + 1
           /\ detections'[Len(detections')].tr = loc'.tr
\* C22: a vehicle detection is matched to the track of its class whose last
\* centre is nearest, if that is less than 100 px away, the lower track id
\* winning a tie; it creates a new track exactly when no track of its class
\* is within 100 px; either way the detection gets a track.
C22_AssociationRule == [][C22_StepOK]_vars
\* a detection matched to the lower of two tracks of its class that were
\* equally near
C22_Witness ==
    /\ loc.kind = "matched"
    /\ loc.pix_dist > 0
    /\ \E j \in TrackIdx :
          /\ tracks[j].cls_id = loc.cls_id
          /\ tracks[j].track_id > loc.tr
          /\ Dist(loc.center, Val(tracks[j].last_center)) = loc.pix_dist

\* ---- C23
\* how often a track id occurs in a per-category list of the report
Listed(vehicles, track_id) ==
    Cardinality({j \in 1..Len(vehicles) : vehicles[j].track_id = track_id})
\* C23: in the report, total_tracks is the sum of the three counts, each
\* count is the length of its list; a track with a positive maximum is listed
\* exactly once, in the list of its status, and a track with maximum 0 has
\* status unknown and is listed nowhere.
C23_ReportCounts ==
    report # Nothing =>
        LET r == Val(report)
            lists == [overspeed |-> r.overspeed_vehicles,
                      grace |-> r.grace_vehicles,
                      within_limit |-> r.within_limit_vehicles]
        IN /\ r.total_tracks
                 = r.overspeed_count + r.grace_count + r.within_limit_count
           /\ r.overspeed_count = Len(r.overspeed_vehicles)
           /\ r.grace_count = Len(r.grace_vehicles)
           /\ r.within_limit_count = Len(r.within_limit_vehicles)
           /\ \A i \in TrackIdx :
                 IF RatGT(tracks[i].max_speed_kmh, Zero)
                 THEN /\ tracks[i].status \in DOMAIN lists
                      /\ \A st \in DOMAIN lists :
                            Listed(lists[st], tracks[i].track_id)
                               = (IF st = tracks[i].status THEN 1 ELSE 0)
                 ELSE /\ tracks[i].status = "unknown"
                      /\ \A st \in DOMAIN lists :
                            Listed(lists[st], tracks[i].track_id) = 0
\* a report over a track with a speed and a track without one
C23_Witness ==
    /\ report # Nothing
    /\ Val(report).total_tracks >= 1
    /\ \E i \in TrackIdx : tracks[i].max_speed_kmh = Zero
    /\ Len(tracks) > Val(report).total_tracks

\* ---- C24
\* the largest element of a sequence of speeds, 0 for the empty sequence
RECURSIVE Largest(_)
Largest(speeds) ==
    IF speeds = <<>> THEN Zero
    ELSE LET rest == Largest(Tail(speeds))
         IN IF RatGT(Head(speeds), rest) THEN Head(speeds) ELSE rest
C24_StepOK ==
    VehicleStep =>
        /\ loc'.kind = "created"
              => /\ tracks'[Len(tracks')].speeds_kmh = <<>>
                 /\ tracks'[Len(tracks')].max_speed_kmh = Zero
                 /\ tracks'[Len(tracks')].status = "unknown"
        /\ \A i \in TrackIdx :
              tracks'[i].speeds_kmh # tracks[i].speeds_kmh
              => /\ tracks[i].track_id = loc'.tr
                 /\ loc'.kind = "matched"
                 /\ loc'.frame_delta > 0
                 /\ loc'.pix_dist >= 3
                 /\ tracks'[i].speeds_kmh
                       = Append(tracks[i].speeds_kmh, loc'.speed_now)
                 /\ RatGT(loc'.speed_now, Zero)
\* C24: every track's max_speed_kmh is the largest of its recorded samples,
\* 0 when it has none; a sample is only recorded by a matched detection with
\* a positive frame delta and a displacement of at least 3 px; a track leaves
\* its creation step with no sample, maximum 0 and status unknown.
C24_MaxIsLargestSample ==
    /\ [](\A i \in TrackIdx :
            tracks[i].max_speed_kmh = Largest(tracks[i].speeds_kmh))
    /\ [][C24_StepOK]_vars
\* a track whose largest sample is not its latest
C24_Witness ==
    \E i \in TrackIdx :
        /\ Len(tracks[i].speeds_kmh) = 2
        /\ RatGT(tracks[i].speeds_kmh[1], tracks[i].speeds_kmh[2])
        /\ tracks[i].max_speed_kmh = tracks[i].speeds_kmh[1]

\* ---- C25
\* C25: a load_calibration call that returns, returns an (mpp, fps) pair that
\* one save_calibration call for that key was given.
C25_LoadsNeverTorn ==
    (calib_out.call = "load_calibration" /\ calib_out.out.kind = "returned")
    => <<calib_out.args[1], calib_out.out.value[1], calib_out.out.value[2]>>
          \in saves

\* ---- C26
\* C26: every response is returned with the request's temporary file gone;
\* it has status ok and the report when analyze_video succeeds on the upload,
\* and status error with the exception text when analyze_video raises on it.
C26_ResponseFollowsPipeline ==
    \A j \in 1..Len(responses) :
        /\ responses[j].tmp_name \notin upload_dir
        /\ responses[j].body
              = (IF PipelineOutcome(responses[j].video).kind = "returned"
                 THEN [status |-> "ok",
                       data |-> PipelineOutcome(responses[j].video).value]
                 ELSE [status |-> "error",
                       detail |-> PipelineOutcome(responses[j].video).error])

\* ---- C27
\* C27: for a speed above 0, classify_speed(kmh, limit) is the status the
\* classification of analyze_video gives a track whose maximum is kmh, under
\* that limit and a grace of 5.
C27_SameAsPipelineClassifier ==
    (risk_call.call = "classify_speed" /\ RatGT(risk_call.kmh, Zero)) =>
        risk_call.out
           = Classify(risk_call.kmh, "unknown", FromInt(risk_call.limit),
                      FromInt(risk_call.limit + 5))
\* a speed exactly on the limit, which both classifiers leave within the limit
C27_Witness ==
    /\ risk_call.call = "classify_speed"
    /\ risk_call.kmh = FromInt(risk_call.limit)
    /\ risk_call.out = "within_limit"

====
